---------------------------- MODULE Spec2Model ----------------------------
(***************************************************************************)
(* The profile store of auth-profiles: the table public.profiles, the two  *)
(* triggers of sql/2-add-functions.sql and the four row-level-security     *)
(* policies of sql/3-enable-rls-policies.sql, driven by the statements a   *)
(* caller can send through the REST interface (select, insert, update,     *)
(* delete) and by the identity subsystem creating rows of auth.users.      *)
(*                                                                         *)
(* Every statement is one atomic step; now() is the server time at which   *)
(* it runs.  The server clock never goes back.  A statement leaves its     *)
(* response in flight until the interface has returned it to the caller.   *)
(*                                                                         *)
(* On top of the store: the calls of lib/profile-client.ts and             *)
(* lib/profile-server.ts, the edit form's handleSubmit and the profile     *)
(* page (ClientSpec); the two setup scripts run against the catalog of     *)
(* functions, triggers and policies (SetupSpec); generateInitials          *)
(* (InitialsSpec); and the application in the browser, where a call is     *)
(* started, served and settled in separate steps: the edit form with a     *)
(* second session of the same identity (FormSpec, LiveFormSpec) and the    *)
(* sidebar with its profile fetches (SidebarSpec).                         *)
(***************************************************************************)
EXTENDS Integers, FiniteSets, Sequences, TLC

\* ------------------------------------------------------------------ bounds
\* Server times are 0..MaxClock.
MaxClock == 1

\* The texts given to generateInitials as fullName have at most MaxNameLen
\* characters.
MaxNameLen == 4

\* At most MaxCalls updateProfile calls are in flight at a time.
MaxCalls == 2

\* At most MaxFetches profile fetches of the sidebar are in flight at a time.
MaxFetches == 2

\* profileVersion counts up to MaxVersion.
MaxVersion == 2

\* ------------------------------------------------------------------ values
\* SQL NULL.  Also auth.uid() of a caller without a session.
NULL == "NULL"

\* The identity ids the identity subsystem can hand out.
Ids == {"u1", "u2"}

\* A caller is an authenticated identity or anonymous (NULL).
Callers == Ids \cup {NULL}

Times == 0..MaxClock

Columns == {"id", "email", "full_name", "avatar_url", "created_at", "updated_at"}

\* SQL equality: NULL = x is not true.
SqlEq(a, b) == a # NULL /\ b # NULL /\ a = b

\* coalesce(a, b)
Coalesce(a, b) == IF a # NULL THEN a ELSE b

\* json ->> key : the text at key, NULL when the key is absent.
JsonText(json, key) == IF key \in DOMAIN json THEN json[key] ELSE NULL

\* raw_user_meta_data of a new identity: {} or {"full_name": "Ann"}.
EmptyJson == [k \in {} |-> NULL]

Metas == {EmptyJson, [full_name |-> "Ann"]}

\* The email of a new identity; NULL for an identity without email.
NewEmails == {"a@x.com", NULL}

\* The rows the identity subsystem can insert into auth.users.
NewUsers == [id : Ids, email : NewEmails, raw_user_meta_data : Metas]

VARIABLES
    users,        \* ids of the rows of auth.users
    profiles,     \* the rows of public.profiles
    provisioned,  \* history: ids whose present row was inserted by the trigger
    clock,        \* server time
    response,     \* the statement just run and what it returns; Idle if none
    sent,         \* the statements the library call in flight has sent
    catalog,      \* the functions, triggers and policies of the database
    auth,         \* the browser's session and what useAuth() exposes of it
    form,         \* the edit form: its profile prop, formData, loading
    calls,        \* the updateProfile calls in flight
    profileVersion, \* the counter of ProfileProvider
    notice,       \* the toast last shown, and whether router.refresh() came with it
    sidebar,      \* the sidebar's profile and profileLoading
    fetches       \* the sidebar's profile fetches, in the order they started

\* The state of the application in the browser.
uiVars == <<auth, form, calls, profileVersion, notice, sidebar, fetches>>

vars == <<users, profiles, provisioned, clock, response, sent, catalog,
          auth, form, calls, profileVersion, notice, sidebar, fetches>>


\* ------------------------------------------------- table public.profiles
\* Column defaults: full_name '', avatar_url NULL, both timestamps now().
ProfilesDefault(col, now) ==
    CASE col = "full_name" -> ""
      [] col = "created_at" -> now
      [] col = "updated_at" -> now
      [] OTHER -> NULL

\* The row an INSERT of the supplied columns proposes.
NewRow(payload, now) ==
    [c \in Columns |-> IF c \in DOMAIN payload THEN payload[c]
                       ELSE ProfilesDefault(c, now)]

\* The row an UPDATE ... SET of the supplied columns proposes for old.
SetColumns(old, payload) ==
    [c \in Columns |-> IF c \in DOMAIN payload THEN payload[c] ELSE old[c]]

\* Constraints of the table, in the order the server checks them: not null
\* (id, email), primary key (id), foreign key (id references auth.users).
\* others are the rows the new row has to coexist with.
\* identities are the ids of auth.users at that moment.
ProfilesConstraints(row, others, identities) ==
    IF row.id = NULL \/ row.email = NULL THEN "23502"
    ELSE IF \E o \in others : o.id = row.id THEN "23505"
    ELSE IF row.id \notin identities THEN "23503"
    ELSE "ok"

\* -------------------------------------- sql/3-enable-rls-policies.sql
\* Mutant: for select using (true).
UsersCanViewOwnProfile_UsingTrue(uid, row) == TRUE

\* create policy "Users can view own profile" for select using (auth.uid() = id)
UsersCanViewOwnProfile(uid, row) == SqlEq(uid, row.id)

\* Mutant: for insert with check (true).
UsersCanInsertTheirOwnProfile_CheckTrue(uid, row) == TRUE

\* create policy "Users can insert their own profile." for insert
\*   with check (auth.uid() = id)
UsersCanInsertTheirOwnProfile(uid, row) == SqlEq(uid, row.id)

\* Mutant: for update using (auth.uid() is not null).
UsersCanUpdateOwnProfile_AnyUser(uid, row) == uid # NULL

\* create policy "Users can update own profile." for update using (auth.uid() = id)
\* With no WITH CHECK clause the USING expression is also the check on the
\* resulting row.
UsersCanUpdateOwnProfile(uid, row) == SqlEq(uid, row.id)

\* Mutant: for delete using (auth.uid() is not null).
UsersCanDeleteOwnProfile_AnyUser(uid, row) == uid # NULL

\* create policy "Users can delete own profile." for delete using (auth.uid() = id)
UsersCanDeleteOwnProfile(uid, row) == SqlEq(uid, row.id)

\* ------------------------------------------- sql/2-add-functions.sql
\* Mutant: without security definer the insert runs with the rights of the
\* role that inserts into auth.users, which the policies bind.
handle_new_user_Invoker(new) ==
    [values |-> [id |-> new.id,
                 email |-> new.email,
                 full_name |-> Coalesce(JsonText(new.raw_user_meta_data, "full_name"), "")],
     security |-> "invoker"]

\* Mutant: without coalesce.
handle_new_user_NoCoalesce(new) ==
    [values |-> [id |-> new.id,
                 email |-> new.email,
                 full_name |-> JsonText(new.raw_user_meta_data, "full_name")],
     security |-> "definer"]

\* handle_new_user(): the columns it inserts for the new auth.users row, and
\* the rights it runs with (security definer: those of the table's owner,
\* whom row-level security does not bind).
handle_new_user(new) ==
    [values |-> [id |-> new.id,
                 email |-> new.email,
                 full_name |-> Coalesce(JsonText(new.raw_user_meta_data, "full_name"), "")],
     security |-> "definer"]

\* Mutant: the function returns new as the statement proposed it.
update_updated_at_column_Keep(new, now) == new

\* update_updated_at_column(): new.updated_at = timezone('utc', now())
update_updated_at_column(new, now) == [new EXCEPT !.updated_at = now]


\* create trigger update_profiles_updated_at before update on profiles
\*   for each row execute procedure update_updated_at_column()
\* No WHEN clause: it fires for every row an UPDATE touches.
update_profiles_updated_at(old, new, now) == update_updated_at_column(new, now)

\* ------------------------------------------------------------ statements
\* A filter of the REST interface: none, or .eq(col, val).
NoFilter == [col |-> "none", val |-> NULL]

ById(u) == [col |-> "id", val |-> u]

Filters == {NoFilter} \cup {ById(u) : u \in Ids}

Matches(filter, row) == filter.col = "none" \/ SqlEq(row[filter.col], filter.val)

\* INSERT of the supplied columns by a role that row-level security binds
\* (bypass = FALSE) or does not bind: the policy check comes before the
\* table's constraints.
InsertInto(uid, bypass, payload, now, identities) ==
    LET row == NewRow(payload, now)
    IN  [row |-> row,
         status |-> IF ~bypass /\ ~UsersCanInsertTheirOwnProfile(uid, row)
                    THEN "42501"
                    ELSE ProfilesConstraints(row, profiles, identities)]

\* Mutant: the trigger's error is caught and the auth.users row is kept.
on_auth_user_created_BestEffort(new, now) ==
    LET f   == handle_new_user(new)
        ins == InsertInto(NULL, f.security = "definer", f.values, now,
                          users \cup {new.id})
    IN  IF ins.status = "ok"
        THEN [status |-> "ok", users |-> users \cup {new.id},
              profiles |-> profiles \cup {ins.row}, data |-> {ins.row.id}]
        ELSE [status |-> ins.status, users |-> users \cup {new.id},
              profiles |-> profiles, data |-> {}]

\* create trigger on_auth_user_created after insert on auth.users
\*   for each row execute procedure handle_new_user()
\* The insert into auth.users and the trigger's insert are one transaction:
\* an error in the trigger undoes both.  No session exists: auth.uid() is NULL.
on_auth_user_created(new, now) ==
    LET f   == handle_new_user(new)
        ins == InsertInto(NULL, f.security = "definer", f.values, now,
                          users \cup {new.id})
    IN  IF ins.status = "ok"
        THEN [status |-> "ok", users |-> users \cup {new.id},
              profiles |-> profiles \cup {ins.row}, data |-> {ins.row.id}]
        ELSE [status |-> ins.status, users |-> users,
              profiles |-> profiles, data |-> {}]

\* Of the rows a statement's USING policy admits, those the statement
\* reaches.  The select policy applies as well when the statement reads
\* columns in its filter.
Reachable(uid, filter, admitted) ==
    {r \in admitted :
        /\ filter.col # "none" => UsersCanViewOwnProfile(uid, r)
        /\ Matches(filter, r)}

\* Mutant: the rows are written before the checks, and stay written when a
\* check fails.
UpdateStatement_NotAtomic(uid, filter, payload, now) ==
    LET targets == Reachable(uid, filter,
                             {r \in profiles : UsersCanUpdateOwnProfile(uid, r)})
        New(r)  == update_profiles_updated_at(r, SetColumns(r, payload), now)
        news    == {New(r) : r \in targets}
        rest    == profiles \ targets
        status  ==
            IF \E r \in targets : ~UsersCanUpdateOwnProfile(uid, New(r))
            THEN "42501"
            ELSE IF \E r \in targets : New(r).id = NULL \/ New(r).email = NULL
            THEN "23502"
            ELSE IF \/ \E r \in targets : \E o \in rest : o.id = New(r).id
                    \/ \E r1, r2 \in targets : r1 # r2 /\ New(r1).id = New(r2).id
            THEN "23505"
            ELSE IF \E r \in targets : New(r).id \notin users
            THEN "23503"
            ELSE "ok"
    IN  [status |-> status,
         profiles |-> rest \cup news,
         data |-> IF status = "ok" THEN {r.id : r \in news} ELSE {}]

\* UPDATE profiles SET payload WHERE filter, by uid.
UpdateStatement(uid, filter, payload, now) ==
    LET targets == Reachable(uid, filter,
                             {r \in profiles : UsersCanUpdateOwnProfile(uid, r)})
        New(r)  == update_profiles_updated_at(r, SetColumns(r, payload), now)
        news    == {New(r) : r \in targets}
        rest    == profiles \ targets
        status  ==
            IF \E r \in targets : ~UsersCanUpdateOwnProfile(uid, New(r))
            THEN "42501"
            ELSE IF \E r \in targets : New(r).id = NULL \/ New(r).email = NULL
            THEN "23502"
            ELSE IF \/ \E r \in targets : \E o \in rest : o.id = New(r).id
                    \/ \E r1, r2 \in targets : r1 # r2 /\ New(r1).id = New(r2).id
            THEN "23505"
            ELSE IF \E r \in targets : New(r).id \notin users
            THEN "23503"
            ELSE "ok"
    IN  [status |-> status,
         profiles |-> IF status = "ok" THEN rest \cup news ELSE profiles,
         data |-> IF status = "ok" THEN {r.id : r \in news} ELSE {}]

\* DELETE FROM profiles WHERE filter, by uid.
DeleteStatement(uid, filter) ==
    LET targets == Reachable(uid, filter,
                             {r \in profiles : UsersCanDeleteOwnProfile(uid, r)})
    IN  [status |-> "ok", profiles |-> profiles \ targets,
         data |-> {r.id : r \in targets}]

\* INSERT INTO profiles of the supplied columns, by uid.
InsertStatement(uid, payload, now) ==
    LET ins == InsertInto(uid, FALSE, payload, now, users)
    IN  [status |-> ins.status,
         profiles |-> IF ins.status = "ok" THEN profiles \cup {ins.row}
                      ELSE profiles,
         data |-> IF ins.status = "ok" THEN {ins.row.id} ELSE {}]

\* The result sets .order("created_at") and .limit(n) can produce from the
\* rows S (limit 0: no limit).  Without an order any n rows may come back.
LimitChoices(S, order, limit) ==
    IF limit = 0 \/ Cardinality(S) <= limit THEN {S}
    ELSE {T \in SUBSET S :
            /\ Cardinality(T) = limit
            /\ order => \A a \in T : \A b \in S \ T : a.created_at <= b.created_at}

\* SELECT cols FROM profiles WHERE filter ORDER BY .. LIMIT .., by uid: the
\* result sets it can return.
SelectStatement(uid, query) ==
    LET visible == {r \in profiles :
                      UsersCanViewOwnProfile(uid, r) /\ Matches(query.filter, r)}
    IN  {{[c \in query.cols |-> r[c]] : r \in T} :
            T \in LimitChoices(visible, query.order, query.limit)}


\* ------------------------------------------------ lib/profile-utils.ts
\* The text of a form field is the sequence of its characters.
Whitespace == {" "}

\* The text value the interface sends for a sequence of characters.
RECURSIVE Text(_)
Text(chars) == IF chars = <<>> THEN "" ELSE Head(chars) \o Text(Tail(chars))

RECURSIVE TrimStart(_)
TrimStart(chars) ==
    IF chars # <<>> /\ Head(chars) \in Whitespace
    THEN TrimStart(Tail(chars)) ELSE chars

RECURSIVE TrimEnd(_)
TrimEnd(chars) ==
    IF chars # <<>> /\ chars[Len(chars)] \in Whitespace
    THEN TrimEnd(SubSeq(chars, 1, Len(chars) - 1)) ELSE chars

\* String.prototype.trim()
Trim(chars) == TrimEnd(TrimStart(chars))

\* String.prototype.split(" "): the pieces between the spaces, the empty
\* ones as well.
RECURSIVE Split(_)
Split(chars) ==
    IF \A i \in 1..Len(chars) : chars[i] # " " THEN <<chars>>
    ELSE LET i == CHOOSE k \in 1..Len(chars) :
                     chars[k] = " " /\ \A j \in 1..(k - 1) : chars[j] # " "
         IN  <<SubSeq(chars, 1, i - 1)>> \o Split(SubSeq(chars, i + 1, Len(chars)))

\* The value of n[0] for an empty n.
Undefined == "undefined"

\* .map((n) => n[0])
RECURSIVE FirstChars(_)
FirstChars(words) ==
    IF words = <<>> THEN <<>>
    ELSE <<IF Head(words) = <<>> THEN Undefined ELSE Head(words)[1]>>
         \o FirstChars(Tail(words))

\* .join(""): an undefined element counts as the empty text.
RECURSIVE Join(_)
Join(elems) ==
    IF elems = <<>> THEN <<>>
    ELSE (IF Head(elems) = Undefined THEN <<>> ELSE <<Head(elems)>>)
         \o Join(Tail(elems))

\* The upper-case form of a character.
Upper(c) ==
    CASE c = "a" -> "A"
      [] c = "n" -> "N"
      [] c = "t" -> "T"
      [] OTHER -> c

\* String.prototype.toUpperCase()
ToUpperCase(chars) == [i \in 1..Len(chars) |-> Upper(chars[i])]

\* Mutant: fullName is used as given, not trimmed.
generateInitials_NoTrim(fullName, fallbackEmail) ==
    LET trimmedName == fullName
    IN  IF trimmedName # <<>>
        THEN ToUpperCase(Join(FirstChars(Split(trimmedName))))
        ELSE ToUpperCase(<<fallbackEmail[1]>>)

\* generateInitials(fullName, fallbackEmail)
generateInitials(fullName, fallbackEmail) ==
    LET trimmedName == Trim(fullName)
    IN  IF trimmedName # <<>>
        THEN ToUpperCase(Join(FirstChars(Split(trimmedName))))
        ELSE ToUpperCase(<<fallbackEmail[1]>>)

\* Mutant: the fields are sent as typed.
sanitizeProfileData_NoTrim(data) ==
    [full_name |-> data.full_name, avatar_url |-> data.avatar_url]

\* sanitizeProfileData(data)
sanitizeProfileData(data) ==
    [full_name |-> Trim(data.full_name), avatar_url |-> Trim(data.avatar_url)]

\* ------------------------------ lib/profile-client.ts, lib/profile-server.ts
\* A statement that supplies no columns.
NoPayload == [c \in {} |-> NULL]

\* A statement as the library hands it to from('profiles').
Statement(op, filter, payload) == [op |-> op, filter |-> filter, payload |-> payload]

\* .single(): the statement's error if it has one; the row if exactly one
\* came back; otherwise error PGRST116 and no data.  data is the set holding
\* the row, empty for null.
Single(status, rows) ==
    IF status # "ok" THEN [data |-> {}, error |-> status]
    ELSE IF Cardinality(rows) = 1 THEN [data |-> rows, error |-> NULL]
    ELSE [data |-> {}, error |-> "PGRST116"]

\* Mutant: the session is not looked at before the update is sent.
updateProfile_NoAuthCheck(user, updates, now) ==
    LET out  == UpdateStatement(user, ById(user), updates, now)
        rows == {r \in out.profiles :
                    r.id \in out.data /\ UsersCanViewOwnProfile(user, r)}
        one  == Single(out.status, rows)
    IN  [data |-> one.data, error |-> one.error,
         sent |-> {Statement("update", ById(user), updates)},
         profiles |-> out.profiles]

\* Mutant: the update is sent without .eq('id', user.id).
updateProfile_NoEq(user, updates, now) ==
    IF user = NULL
    THEN [data |-> {}, error |-> "User not authenticated", sent |-> {},
          profiles |-> profiles]
    ELSE LET out  == UpdateStatement(user, NoFilter, updates, now)
             rows == {r \in out.profiles :
                         r.id \in out.data /\ UsersCanViewOwnProfile(user, r)}
             one  == Single(out.status, rows)
         IN  [data |-> one.data, error |-> one.error,
              sent |-> {Statement("update", NoFilter, updates)},
              profiles |-> out.profiles]

\* updateProfile(updates), user being what auth.getUser() returns:
\*   no user: {data: null, error: 'User not authenticated'}, nothing sent;
\*   else from('profiles').update(updates).eq('id', user.id).select().single()
\*   and {data, error: error.message}.
updateProfile(user, updates, now) ==
    IF user = NULL
    THEN [data |-> {}, error |-> "User not authenticated", sent |-> {},
          profiles |-> profiles]
    ELSE LET out  == UpdateStatement(user, ById(user), updates, now)
             rows == {r \in out.profiles :
                         r.id \in out.data /\ UsersCanViewOwnProfile(user, r)}
             one  == Single(out.status, rows)
         IN  [data |-> one.data, error |-> one.error,
              sent |-> {Statement("update", ById(user), updates)},
              profiles |-> out.profiles]

\* getProfile(userId), sent with the session of uid:
\*   from('profiles').select('*').eq('id', userId).single(); the profile, or
\*   null on any error.  The outcomes it can have.
getProfile(uid, userId) ==
    {[data |-> Single("ok", rows).data,
      sent |-> {Statement("select", ById(userId), NoPayload)}] :
        rows \in SelectStatement(uid, [cols |-> Columns, filter |-> ById(userId),
                                       order |-> FALSE, limit |-> 0])}

\* getCurrentUserProfile(): null without a user, else getProfile(user.id).
getCurrentUserProfile(user) ==
    IF user = NULL THEN {[data |-> {}, sent |-> {}]} ELSE getProfile(user, user)

\* getCurrentUserProfileClient(): null without a user, else
\*   from('profiles').select('*').eq('id', user.id).single(), null on error.
getCurrentUserProfileClient(user) ==
    IF user = NULL THEN {[data |-> {}, sent |-> {}]}
    ELSE {[data |-> Single("ok", rows).data,
           sent |-> {Statement("select", ById(user), NoPayload)}] :
             rows \in SelectStatement(user, [cols |-> Columns, filter |-> ById(user),
                                             order |-> FALSE, limit |-> 0])}

\* ------------------------------------------------- app/profile/page.tsx
\* ProfilePage(): redirect("/") without a user; the "Profile Error" page
\* when getCurrentUserProfile() returns null; else the profile.
ProfilePage(user) ==
    IF user = NULL THEN {[outcome |-> "redirect:/", data |-> {}, sent |-> {}]}
    ELSE {[outcome |-> IF p.data = {} THEN "Profile Error" ELSE "profile",
           data |-> p.data, sent |-> p.sent] : p \in getCurrentUserProfile(user)}

\* ------------------------------ components/profile/profile-edit-form.tsx
\* handleSubmit(): updateProfile(sanitizeProfileData(formData)); an error
\* toast on error, else a success toast and a refresh.
handleSubmit(user, formData, now) ==
    LET sanitizedData == sanitizeProfileData(formData)
        res == updateProfile(user, [c \in DOMAIN sanitizedData |->
                                       Text(sanitizedData[c])], now)
    IN  [toast |-> IF res.error # NULL THEN "error" ELSE "success",
         refresh |-> res.error = NULL,
         error |-> res.error, data |-> res.data, sent |-> res.sent,
         profiles |-> res.profiles]

\* What the promise of an updateProfile call settles with, as far as the
\* caller looks at it: the error the call returned, or that it threw.
NoResult == [error |-> NULL, thrown |-> FALSE]

\* Mutant: no finally; setLoading(false) follows the toasts inside try.
handleSubmitSettled_NoFinally(result) ==
    IF result.thrown
    THEN [toast |-> "Something went wrong", refreshProfile |-> FALSE,
          routerRefresh |-> FALSE, loading |-> TRUE]
    ELSE IF result.error # NULL
    THEN [toast |-> "Failed to update profile", refreshProfile |-> FALSE,
          routerRefresh |-> FALSE, loading |-> FALSE]
    ELSE [toast |-> "Profile updated successfully!", refreshProfile |-> TRUE,
          routerRefresh |-> TRUE, loading |-> FALSE]

\* Mutant: refreshProfile() and router.refresh() follow the if, on either
\* branch.
handleSubmitSettled_RefreshAlways(result) ==
    IF result.thrown
    THEN [toast |-> "Something went wrong", refreshProfile |-> FALSE,
          routerRefresh |-> FALSE, loading |-> FALSE]
    ELSE IF result.error # NULL
    THEN [toast |-> "Failed to update profile", refreshProfile |-> TRUE,
          routerRefresh |-> TRUE, loading |-> FALSE]
    ELSE [toast |-> "Profile updated successfully!", refreshProfile |-> TRUE,
          routerRefresh |-> TRUE, loading |-> FALSE]

\* handleSubmit() from the await on, result being what updateProfile settled
\* with: the toast, whether refreshProfile() and router.refresh() are
\* called, and loading as finally leaves it.
handleSubmitSettled(result) ==
    IF result.thrown
    THEN [toast |-> "Something went wrong", refreshProfile |-> FALSE,
          routerRefresh |-> FALSE, loading |-> FALSE]
    ELSE IF result.error # NULL
    THEN [toast |-> "Failed to update profile", refreshProfile |-> FALSE,
          routerRefresh |-> FALSE, loading |-> FALSE]
    ELSE [toast |-> "Profile updated successfully!", refreshProfile |-> TRUE,
          routerRefresh |-> TRUE, loading |-> FALSE]

\* The texts the form's fields can hold.
FormTexts == {<<>>, <<"A", "n", "n">>, <<"B", "o", "b">>,
              <<"h", "t", "t", "p", "s", ":", "/", "/", "c", "d", "n", "/",
                "x", ".", "p", "n", "g">>}

\* The characters of a text.
Chars(text) == CHOOSE chars \in FormTexts : Text(chars) = text

\* a || ""
OrEmpty(a) == IF a = NULL THEN "" ELSE a

\* No form is mounted.
NoForm ==
    [profile |-> {}, formData |-> [full_name |-> <<>>, avatar_url |-> <<>>],
     loading |-> FALSE]

\* ProfileEditForm({ profile }) as mounted.
ProfileEditForm(profile) ==
    [profile |-> {profile},
     formData |-> [full_name |-> Chars(OrEmpty(profile.full_name)),
                   avatar_url |-> Chars(OrEmpty(profile.avatar_url))],
     loading |-> FALSE]

\* Mutant: the submit button is never disabled.
SubmitEnabled_Always(f) == f.profile # {}

\* <Button type="submit" disabled={loading}>: the form can be submitted.
SubmitEnabled(f) == f.profile # {} /\ ~f.loading

\* --------------------------------------------- contexts/profile-context.tsx
\* setProfileVersion(prev => prev + 1)
refreshProfile(prev) == prev + 1

\* -------------------------------------------------- components/app-sidebar.tsx
\* The fetches whose promise has not run its callbacks.
InFlight(fs) == SelectSeq(fs, LAMBDA f : f.stage # "completed")

\* The fetches that matter: those in flight and the one started last.
Kept(fs) ==
    IF fs = <<>> THEN <<>>
    ELSE InFlight(SubSeq(fs, 1, Len(fs) - 1)) \o <<fs[Len(fs)]>>

\* The effect on [user, authLoading, profileVersion], run with what useAuth()
\* exposes: with a user, setProfileLoading(true) and a fetch is started;
\* else setProfile(null).  No effect runs while the sidebar is not mounted.
FetchProfileEffect(a, sb, fs) ==
    IF ~sb.mounted THEN [sidebar |-> sb, fetches |-> fs]
    ELSE IF a.user # NULL /\ ~a.loading
    THEN [sidebar |-> [sb EXCEPT !.profileLoading = TRUE],
          fetches |-> Kept(Append(fs, [stage |-> "started", data |-> {}]))]
    ELSE [sidebar |-> [sb EXCEPT !.profile = {}], fetches |-> fs]

\* --------------------------------------------------------- setup scripts
\* A statement of a setup script: what it does to which function, trigger or
\* policy, on which table or schema, and for a trigger the function it runs.
Stmt(verb, kind, name, on, uses) ==
    [verb |-> verb, kind |-> kind, name |-> name, on |-> on, uses |-> uses]

\* sql/2-add-functions.sql
AddFunctions ==
    <<Stmt("drop if exists", "trigger", "on_auth_user_created", "auth.users", NULL),
      Stmt("drop if exists", "trigger", "update_profiles_updated_at", "profiles", NULL),
      Stmt("drop if exists", "function", "handle_new_user", "public", NULL),
      Stmt("drop if exists", "function", "update_updated_at_column", "public", NULL),
      Stmt("create or replace", "function", "handle_new_user", "public", NULL),
      Stmt("create or replace", "function", "update_updated_at_column", "public", NULL),
      Stmt("create", "trigger", "on_auth_user_created", "auth.users", "handle_new_user"),
      Stmt("create", "trigger", "update_profiles_updated_at", "profiles",
           "update_updated_at_column")>>

\* Mutant: the second drop policy names the policy without its final period.
EnableRlsPolicies_DropOtherName ==
    <<Stmt("drop if exists", "policy", "Users can view own profile", "profiles", NULL),
      Stmt("drop if exists", "policy", "Users can insert their own profile", "profiles", NULL),
      Stmt("drop if exists", "policy", "Users can update own profile.", "profiles", NULL),
      Stmt("drop if exists", "policy", "Users can delete own profile.", "profiles", NULL),
      Stmt("enable row level security", "table", "profiles", "public", NULL),
      Stmt("create", "policy", "Users can view own profile", "profiles", NULL),
      Stmt("create", "policy", "Users can insert their own profile.", "profiles", NULL),
      Stmt("create", "policy", "Users can update own profile.", "profiles", NULL),
      Stmt("create", "policy", "Users can delete own profile.", "profiles", NULL)>>

\* sql/3-enable-rls-policies.sql
EnableRlsPolicies ==
    <<Stmt("drop if exists", "policy", "Users can view own profile", "profiles", NULL),
      Stmt("drop if exists", "policy", "Users can insert their own profile.", "profiles", NULL),
      Stmt("drop if exists", "policy", "Users can update own profile.", "profiles", NULL),
      Stmt("drop if exists", "policy", "Users can delete own profile.", "profiles", NULL),
      Stmt("enable row level security", "table", "profiles", "public", NULL),
      Stmt("create", "policy", "Users can view own profile", "profiles", NULL),
      Stmt("create", "policy", "Users can insert their own profile.", "profiles", NULL),
      Stmt("create", "policy", "Users can update own profile.", "profiles", NULL),
      Stmt("create", "policy", "Users can delete own profile.", "profiles", NULL)>>

\* An object of the catalog.  def tells whose definition it carries: the
\* script's, or the one of an earlier version.
Object(kind, name, on, uses, def) ==
    [kind |-> kind, name |-> name, on |-> on, uses |-> uses, def |-> def]

\* The catalog after one statement, and the statement's status.  A function
\* a trigger runs cannot be dropped (2BP01); create fails on an existing name
\* (42710) and, for a trigger, on a missing function (42883); create or
\* replace puts the new definition in the place of the old.
Exec(cat, st) ==
    LET Same(o)  == o.kind = st.kind /\ o.name = st.name /\ o.on = st.on
        others   == {o \in cat.objects : ~Same(o)}
        new      == Object(st.kind, st.name, st.on, st.uses, "script")
        Ok(objs) == [status |-> "ok", catalog |-> [cat EXCEPT !.objects = objs]]
        Fail(e)  == [status |-> e, catalog |-> cat]
    IN  CASE st.verb = "drop if exists" ->
                IF st.kind = "function"
                   /\ \E o \in cat.objects : o.kind = "trigger" /\ o.uses = st.name
                THEN Fail("2BP01") ELSE Ok(others)
          [] st.verb = "create or replace" -> Ok(others \cup {new})
          [] st.verb = "create" ->
                IF others # cat.objects THEN Fail("42710")
                ELSE IF st.uses # NULL
                        /\ ~\E o \in cat.objects : o.kind = "function" /\ o.name = st.uses
                THEN Fail("42883")
                ELSE Ok(cat.objects \cup {new})
          [] st.verb = "enable row level security" ->
                [status |-> "ok", catalog |-> [cat EXCEPT !.rls = TRUE]]

\* The statements of a script in their order, up to the first that fails.
RECURSIVE RunFrom(_, _)
RunFrom(cat, script) ==
    IF script = <<>> THEN [status |-> "ok", catalog |-> cat]
    ELSE LET r == Exec(cat, Head(script))
         IN  IF r.status # "ok" THEN r ELSE RunFrom(r.catalog, Tail(script))

\* A script is executed from the SQL editor as one transaction: an error
\* undoes what the statements before it did.
RunScript(cat, script) ==
    LET r == RunFrom(cat, script)
    IN  [status |-> r.status,
         catalog |-> IF r.status = "ok" THEN r.catalog ELSE cat]

\* The objects of cat that a script drops.
Dropped(cat, script) ==
    {o \in cat.objects : \E i \in 1..Len(script) :
        /\ script[i].verb = "drop if exists"
        /\ o.kind = script[i].kind /\ o.name = script[i].name /\ o.on = script[i].on}

\* A database with the tables and nothing else.
Fresh == [objects |-> {}, rls |-> FALSE]

\* The database after the setup scripts.
Installed == RunScript(RunScript(Fresh, AddFunctions).catalog, EnableRlsPolicies).catalog

\* The catalogs a database can be in when a script is run: any of the
\* scripts' objects may be there, with the script's definition or an earlier
\* one; a trigger is there only with its function.
Catalogs ==
    LET named == {Object(st.kind, st.name, st.on, st.uses, def) :
                     st \in {AddFunctions[i] : i \in 5..8}
                            \cup {EnableRlsPolicies[i] : i \in 6..9},
                     def \in {"script", "earlier"}}
    IN  {[objects |-> S, rls |-> b] :
            S \in {T \in SUBSET named :
                     /\ \A o1, o2 \in T :
                           (o1.kind = o2.kind /\ o1.name = o2.name) => o1 = o2
                     /\ \A o \in T : o.uses # NULL =>
                           \E f \in T : f.kind = "function" /\ f.name = o.uses},
            b \in BOOLEAN}

\* ---------------------------------------------------------------- inputs
\* The shapes of select the callers send: unfiltered, a column subset,
\* limited, ordered, filtered by id.
Query(cols, filter, order, limit) ==
    [cols |-> cols, filter |-> filter, order |-> order, limit |-> limit]

SelectQueries ==
    {Query(Columns, NoFilter, FALSE, 0),
     Query({"email", "full_name"}, NoFilter, FALSE, 0),
     Query(Columns, NoFilter, FALSE, 1),
     Query(Columns, NoFilter, TRUE, 0)}
    \cup {Query(Columns, ById(u), FALSE, 0) : u \in Ids}

\* The columns an UPDATE supplies.
UpdatePayloads ==
    {[full_name |-> n] : n \in {"", "Ann"}}
    \cup {[avatar_url |-> "https://cdn/x.png"]}
    \cup {[created_at |-> t] : t \in Times}
    \cup {[updated_at |-> t] : t \in Times}
    \cup {[id |-> u] : u \in Ids}

\* The columns an INSERT supplies.
InsertPayloads ==
    {[id |-> u] : u \in Ids}
    \cup {[id |-> u, email |-> "a@x.com"] : u \in Ids}
    \cup {[id |-> u, email |-> "a@x.com", updated_at |-> t] : u \in Ids, t \in Times}

\* What the user can have typed into the edit form.
AvatarChars == <<"h", "t", "t", "p", "s", ":", "/", "/", "c", "d", "n", "/",
                 "x", ".", "p", "n", "g">>

FormDatas ==
    [full_name : {<<>>, <<" ">>, <<"A", "n", "n">>, <<" ", "A", "n", "n", " ">>},
     avatar_url : {<<>>, <<" ">> \o AvatarChars}]

\* The updates a caller hands to updateProfile: any of full_name, avatar_url;
\* and, for a caller that goes past the type, an id, which the database
\* refuses unless it is the row's own.
ProfileUpdates ==
    {[full_name |-> n] : n \in {"", "Ann"}}
    \cup {[avatar_url |-> Text(AvatarChars)]}
    \cup {[full_name |-> "Ann", avatar_url |-> Text(AvatarChars)]}
    \cup {[id |-> u] : u \in Ids}

\* The texts generateInitials is given: names of spaces, a lower-case and an
\* upper-case letter; emails, which are never empty.
NameChars == {" ", "a", "B"}

FullNames == UNION {[1..k -> NameChars] : k \in 0..MaxNameLen}

FallbackEmails == {<<"t", "@", "x">>, <<"B", "@", "x">>}

\* A caller has a session only for an identity that exists.
HasSession(uid) == uid = NULL \/ uid \in users

\* What the interface holds of a statement: who sent what, the status, and
\* the rows returned (select) or the ids of the rows written (the others).
\* For an identity creation payload is the new auth.users row.
Response(op, uid, filter, payload, status, data) ==
    [op |-> op, uid |-> uid, filter |-> filter, payload |-> payload,
     status |-> status, data |-> data]

\* No response is in flight.
Idle == Response("none", NULL, NoFilter, NoPayload, "ok", {})

\* The identity that uses the application in the browser.
UiUser == "u1"

\* No toast has been shown.
NoNotice == [toast |-> "none", routerRefresh |-> FALSE]

\* The application is not open in any browser.
NoBrowser ==
    /\ auth = [session |-> NULL, user |-> NULL, loading |-> TRUE]
    /\ form = NoForm
    /\ calls = {}
    /\ profileVersion = 0
    /\ notice = NoNotice
    /\ sidebar = [mounted |-> FALSE, profile |-> {}, profileLoading |-> FALSE]
    /\ fetches = <<>>

\* The names the user types into the form.
TypedNames == {<<>>, <<"B", "o", "b">>}

\* The updates another session of the identity makes: those of the form
\* open in another browser, which sends both fields.
OtherUpdates == {[full_name |-> "Ann", avatar_url |-> Text(AvatarChars)]}

\* ----------------------------------------------------------------- state
Init ==
    /\ users = {}
    /\ profiles = {}
    /\ provisioned = {}
    /\ clock = 0
    /\ response = Idle
    /\ sent = {}
    /\ catalog = Installed
    /\ NoBrowser

\* The identity subsystem inserts a row into auth.users (ids are unique
\* there); on_auth_user_created runs in the same transaction.
CreateIdentity ==
    \E new \in NewUsers :
        /\ response = Idle
        /\ new.id \notin users
        /\ LET out == on_auth_user_created(new, clock)
           IN  /\ users' = out.users
               /\ profiles' = out.profiles
               /\ provisioned' = IF out.status = "ok"
                                 THEN provisioned \cup {new.id} ELSE provisioned
               /\ response' = Response("signup", NULL, NoFilter, new, out.status, out.data)
        /\ UNCHANGED <<clock, sent, catalog, uiVars>>

Select ==
    \E uid \in Callers, query \in SelectQueries :
        /\ response = Idle
        /\ HasSession(uid)
        /\ \E data \in SelectStatement(uid, query) :
               response' = Response("select", uid, query.filter, NoPayload, "ok", data)
        /\ UNCHANGED <<users, profiles, provisioned, clock, sent, catalog, uiVars>>

Insert ==
    \E uid \in Callers, payload \in InsertPayloads :
        /\ response = Idle
        /\ HasSession(uid)
        /\ LET out == InsertStatement(uid, payload, clock)
           IN  /\ profiles' = out.profiles
               /\ response' = Response("insert", uid, NoFilter, payload, out.status, out.data)
        /\ UNCHANGED <<users, provisioned, clock, sent, catalog, uiVars>>

Update ==
    \E uid \in Callers, filter \in Filters, payload \in UpdatePayloads :
        /\ response = Idle
        /\ HasSession(uid)
        /\ LET out == UpdateStatement(uid, filter, payload, clock)
           IN  /\ profiles' = out.profiles
               /\ provisioned' = provisioned \cap {r.id : r \in out.profiles}
               /\ response' = Response("update", uid, filter, payload, out.status, out.data)
        /\ UNCHANGED <<users, clock, sent, catalog, uiVars>>

Delete ==
    \E uid \in Callers, filter \in Filters :
        /\ response = Idle
        /\ HasSession(uid)
        /\ LET out == DeleteStatement(uid, filter)
           IN  /\ profiles' = out.profiles
               /\ provisioned' = provisioned \cap {r.id : r \in out.profiles}
               /\ response' = Response("delete", uid, filter, NoPayload, out.status, out.data)
        /\ UNCHANGED <<users, clock, sent, catalog, uiVars>>

\* Time passes on the server between two statements.
Tick ==
    /\ response = Idle
    /\ clock < MaxClock
    /\ clock' = clock + 1
    /\ UNCHANGED <<users, profiles, provisioned, response, sent, catalog, uiVars>>

\* The interface returns the response to the caller.
Respond ==
    /\ response # Idle
    /\ response' = Idle
    /\ sent' = {}
    /\ UNCHANGED <<users, profiles, provisioned, clock, catalog, uiVars>>

\* The user submits the edit form.
SubmitForm ==
    \E user \in Callers, formData \in FormDatas :
        /\ response = Idle
        /\ HasSession(user)
        /\ LET out == handleSubmit(user, formData, clock)
           IN  /\ profiles' = out.profiles
               /\ sent' = out.sent
               /\ response' = Response("handleSubmit", user, NoFilter, formData,
                                       IF out.error = NULL THEN "ok" ELSE out.error,
                                       out.data)
        /\ UNCHANGED <<users, provisioned, clock, catalog, uiVars>>

UpdateProfileCall ==
    \E user \in Callers, updates \in ProfileUpdates :
        /\ response = Idle
        /\ HasSession(user)
        /\ LET out == updateProfile(user, updates, clock)
           IN  /\ profiles' = out.profiles
               /\ sent' = out.sent
               /\ response' = Response("updateProfile", user, NoFilter, updates,
                                       IF out.error = NULL THEN "ok" ELSE out.error,
                                       out.data)
        /\ UNCHANGED <<users, provisioned, clock, catalog, uiVars>>

GetProfileCall ==
    \E uid \in Callers, userId \in Ids :
        /\ response = Idle
        /\ HasSession(uid)
        /\ \E out \in getProfile(uid, userId) :
               /\ sent' = out.sent
               /\ response' = Response("getProfile", uid, ById(userId), NoPayload,
                                       "ok", out.data)
        /\ UNCHANGED <<users, profiles, provisioned, clock, catalog, uiVars>>

GetCurrentUserProfileCall ==
    \E user \in Callers :
        /\ response = Idle
        /\ HasSession(user)
        /\ \E out \in getCurrentUserProfile(user) :
               /\ sent' = out.sent
               /\ response' = Response("getCurrentUserProfile", user, NoFilter,
                                       NoPayload, "ok", out.data)
        /\ UNCHANGED <<users, profiles, provisioned, clock, catalog, uiVars>>

GetCurrentUserProfileClientCall ==
    \E user \in Callers :
        /\ response = Idle
        /\ HasSession(user)
        /\ \E out \in getCurrentUserProfileClient(user) :
               /\ sent' = out.sent
               /\ response' = Response("getCurrentUserProfileClient", user, NoFilter,
                                       NoPayload, "ok", out.data)
        /\ UNCHANGED <<users, profiles, provisioned, clock, catalog, uiVars>>

\* A request for /profile; the response's status is the page's outcome.
OpenProfilePage ==
    \E user \in Callers :
        /\ response = Idle
        /\ HasSession(user)
        /\ \E out \in ProfilePage(user) :
               /\ sent' = out.sent
               /\ response' = Response("ProfilePage", user, NoFilter, NoPayload,
                                       out.outcome, out.data)
        /\ UNCHANGED <<users, profiles, provisioned, clock, catalog, uiVars>>

Next ==
    CreateIdentity \/ Select \/ Insert \/ Update \/ Delete \/ Tick \/ Respond

Spec == Init /\ [][Next]_vars

\* The application on top of the store: the library's calls, the edit form
\* and the profile page, with identities created, rows deleted and inserted
\* and time passing in between.
ClientNext ==
    \/ CreateIdentity \/ Insert \/ Delete \/ Tick \/ Respond
    \/ SubmitForm \/ UpdateProfileCall \/ GetProfileCall
    \/ GetCurrentUserProfileCall \/ GetCurrentUserProfileClientCall
    \/ OpenProfilePage

ClientSpec == Init /\ [][ClientNext]_vars

\* A database in any state of installation, the statements at rest.
SetupInit ==
    /\ users = {}
    /\ profiles = {}
    /\ provisioned = {}
    /\ clock = 0
    /\ response = Idle
    /\ sent = {}
    /\ catalog \in Catalogs
    /\ NoBrowser

\* sql/2-add-functions.sql is executed.  The response tells the names of the
\* objects the script found and dropped.
RunAddFunctions ==
    /\ response = Idle
    /\ LET out == RunScript(catalog, AddFunctions)
       IN  /\ catalog' = out.catalog
           /\ response' = Response("2-add-functions.sql", NULL, NoFilter, NoPayload,
                                   out.status,
                                   {o.name : o \in Dropped(catalog, AddFunctions)})
    /\ UNCHANGED <<users, profiles, provisioned, clock, sent, uiVars>>

\* sql/3-enable-rls-policies.sql is executed.
RunEnableRlsPolicies ==
    /\ response = Idle
    /\ LET out == RunScript(catalog, EnableRlsPolicies)
       IN  /\ catalog' = out.catalog
           /\ response' = Response("3-enable-rls-policies.sql", NULL, NoFilter,
                                   NoPayload, out.status,
                                   {o.name : o \in Dropped(catalog, EnableRlsPolicies)})
    /\ UNCHANGED <<users, profiles, provisioned, clock, sent, uiVars>>

SetupNext == RunAddFunctions \/ RunEnableRlsPolicies \/ Respond

SetupSpec == SetupInit /\ [][SetupNext]_vars

\* The initials of a name are computed; the response carries them.
GenerateInitialsCall ==
    \E fullName \in FullNames, fallbackEmail \in FallbackEmails :
        /\ response = Idle
        /\ response' = Response("generateInitials", NULL, NoFilter,
                                [fullName |-> fullName, fallbackEmail |-> fallbackEmail],
                                "ok", {generateInitials(fullName, fallbackEmail)})
        /\ UNCHANGED <<users, profiles, provisioned, clock, sent, catalog, uiVars>>

InitialsNext == GenerateInitialsCall \/ Respond

InitialsSpec == Init /\ [][InitialsNext]_vars

\* ------------------------------------------- the application in the browser
\* The identity has signed up and holds a session in the browser; the
\* profile page has mounted: AuthProvider is fetching the session and the
\* edit form shows the row the server read.  With the sidebar, its effect
\* has run without a user.
Mounted(withSidebar) ==
    \E new \in NewUsers :
        /\ new.id = UiUser
        /\ new.email # NULL
        /\ LET row == NewRow(handle_new_user(new).values, 0)
           IN  /\ profiles = {row}
               /\ form = ProfileEditForm(row)
        /\ users = {UiUser}
        /\ provisioned = {UiUser}
        /\ clock = 0
        /\ response = Idle
        /\ sent = {}
        /\ catalog = Installed
        /\ auth = [session |-> UiUser, user |-> NULL, loading |-> TRUE]
        /\ calls = {}
        /\ profileVersion = 0
        /\ notice = NoNotice
        /\ sidebar = [mounted |-> withSidebar, profile |-> {},
                      profileLoading |-> FALSE]
        /\ fetches = <<>>

\* The calls the form has in flight.
FormCalls == {c \in calls : c.session = "form"}

\* A fetch can be started, and every form call in flight can start one when
\* it settles.
CanFetch == Len(InFlight(fetches)) + Cardinality(FormCalls) < MaxFetches

\* A call as it starts.
Call(session, updates) ==
    [n |-> CHOOSE k \in 1..MaxCalls : k \notin {c.n : c \in calls},
     session |-> session, updates |-> updates, stage |-> "sent",
     result |-> NoResult]

\* AuthProvider's initial session fetch resolves; the sidebar's effect runs.
AuthResolved ==
    /\ auth.loading
    /\ CanFetch
    /\ LET a   == [auth EXCEPT !.user = auth.session, !.loading = FALSE]
           eff == FetchProfileEffect(a, sidebar, fetches)
       IN  /\ auth' = a
           /\ sidebar' = eff.sidebar
           /\ fetches' = eff.fetches
    /\ UNCHANGED <<users, profiles, provisioned, clock, response, sent, catalog,
                   form, calls, profileVersion, notice>>

\* The session ends (SIGNED_OUT); the sidebar's effect runs.
SignedOut ==
    /\ ~auth.loading
    /\ auth.user # NULL
    /\ LET a   == [auth EXCEPT !.session = NULL, !.user = NULL]
           eff == FetchProfileEffect(a, sidebar, fetches)
       IN  /\ auth' = a
           /\ sidebar' = eff.sidebar
           /\ fetches' = eff.fetches
    /\ UNCHANGED <<users, profiles, provisioned, clock, response, sent, catalog,
                   form, calls, profileVersion, notice>>

\* The identity signs in again (SIGNED_IN); the sidebar's effect runs.
SignedIn ==
    /\ ~auth.loading
    /\ auth.user = NULL
    /\ CanFetch
    /\ LET a   == [auth EXCEPT !.session = UiUser, !.user = UiUser]
           eff == FetchProfileEffect(a, sidebar, fetches)
       IN  /\ auth' = a
           /\ sidebar' = eff.sidebar
           /\ fetches' = eff.fetches
    /\ UNCHANGED <<users, profiles, provisioned, clock, response, sent, catalog,
                   form, calls, profileVersion, notice>>

\* The user types a name into the Full Name field.
ChangeFullName ==
    \E chars \in TypedNames :
        /\ form.profile # {}
        /\ form' = [form EXCEPT !.formData.full_name = chars]
        /\ UNCHANGED <<users, profiles, provisioned, clock, response, sent, catalog,
                       auth, calls, profileVersion, notice, sidebar, fetches>>

\* The user clicks "Random avatar".
handleGenerateRandomAvatar ==
    /\ form.profile # {}
    /\ form' = [form EXCEPT !.formData.avatar_url = AvatarChars]
    /\ notice' = [toast |-> "Random avatar generated!", routerRefresh |-> FALSE]
    /\ UNCHANGED <<users, profiles, provisioned, clock, response, sent, catalog,
                   auth, calls, profileVersion, sidebar, fetches>>

\* The user clicks "Clear Avatar".
ClearAvatar ==
    /\ form.profile # {}
    /\ form' = [form EXCEPT !.formData.avatar_url = <<>>]
    /\ notice' = [toast |-> "Avatar cleared", routerRefresh |-> FALSE]
    /\ UNCHANGED <<users, profiles, provisioned, clock, response, sent, catalog,
                   auth, calls, profileVersion, sidebar, fetches>>

\* The user submits the form: handleSubmit() up to the await.
StartSubmit ==
    /\ SubmitEnabled(form)
    /\ Cardinality(calls) < MaxCalls
    /\ CanFetch
    /\ profileVersion + Cardinality(FormCalls) < MaxVersion
    /\ LET sanitizedData == sanitizeProfileData(form.formData)
           updates == [c \in DOMAIN sanitizedData |-> Text(sanitizedData[c])]
       IN  calls' = calls \cup {Call("form", updates)}
    /\ form' = [form EXCEPT !.loading = TRUE]
    /\ UNCHANGED <<users, profiles, provisioned, clock, response, sent, catalog,
                   auth, profileVersion, notice, sidebar, fetches>>

\* Another session of the identity calls updateProfile: the form in another
\* browser is submitted, which has one call in flight at a time.
StartOtherUpdate ==
    \E updates \in OtherUpdates :
        /\ Cardinality(calls) < MaxCalls
        /\ calls \ FormCalls = {}
        /\ calls' = calls \cup {Call("other", updates)}
        /\ UNCHANGED <<users, profiles, provisioned, clock, response, sent, catalog,
                       auth, form, profileVersion, notice, sidebar, fetches>>

\* The server runs the update of call c, with the session the call was made
\* in.
ServeUpdateOf(c) ==
        /\ c.stage = "sent"
        /\ LET user == IF c.session = "form" THEN auth.session ELSE UiUser
               out  == updateProfile(user, c.updates, clock)
           IN  /\ profiles' = out.profiles
               /\ provisioned' = provisioned \cap {r.id : r \in out.profiles}
               /\ calls' = (calls \ {c}) \cup
                     {[c EXCEPT !.stage = "served",
                                !.result = [error |-> out.error, thrown |-> FALSE]]}
        /\ UNCHANGED <<users, clock, response, sent, catalog,
                       auth, form, profileVersion, notice, sidebar, fetches>>

\* The server runs the update of a call in flight.
ServeUpdate == \E c \in calls : ServeUpdateOf(c)

\* Call c fails before it reaches the server: its promise rejects.
ThrowUpdateOf(c) ==
        /\ c.stage = "sent"
        /\ calls' = (calls \ {c}) \cup
              {[c EXCEPT !.stage = "served", !.result.thrown = TRUE]}
        /\ UNCHANGED <<users, profiles, provisioned, clock, response, sent, catalog,
                       auth, form, profileVersion, notice, sidebar, fetches>>

\* A call in flight fails before it reaches the server.
ThrowUpdate == \E c \in calls : ThrowUpdateOf(c)

\* The form's call settles: handleSubmit() from the await on; when
\* profileVersion changes the sidebar's effect runs.
SettleSubmit ==
    \E c \in FormCalls :
        /\ c.stage = "served"
        /\ LET done == handleSubmitSettled(c.result)
               eff  == IF done.refreshProfile
                       THEN FetchProfileEffect(auth, sidebar, fetches)
                       ELSE [sidebar |-> sidebar, fetches |-> fetches]
           IN  /\ notice' = [toast |-> done.toast, routerRefresh |-> done.routerRefresh]
               /\ profileVersion' = IF done.refreshProfile
                                    THEN refreshProfile(profileVersion)
                                    ELSE profileVersion
               /\ form' = [form EXCEPT !.loading = done.loading]
               /\ sidebar' = eff.sidebar
               /\ fetches' = eff.fetches
        /\ calls' = calls \ {c}
        /\ UNCHANGED <<users, profiles, provisioned, clock, response, sent, catalog,
                       auth>>

\* The other session's call settles.
SettleOtherUpdate ==
    \E c \in calls :
        /\ c.session = "other"
        /\ c.stage = "served"
        /\ calls' = calls \ {c}
        /\ UNCHANGED <<users, profiles, provisioned, clock, response, sent, catalog,
                       auth, form, profileVersion, notice, sidebar, fetches>>

\* The server answers a fetch of the sidebar, with the browser's session.
ServeFetch ==
    \E i \in DOMAIN fetches, out \in getCurrentUserProfileClient(auth.session) :
        /\ fetches[i].stage = "started"
        /\ fetches' = [fetches EXCEPT ![i] = [stage |-> "served", data |-> out.data]]
        /\ UNCHANGED <<users, profiles, provisioned, clock, response, sent, catalog,
                       auth, form, calls, profileVersion, notice, sidebar>>

\* The promise of a fetch runs its callbacks: setProfile(profileData), then
\* setProfileLoading(false).
CompleteFetch ==
    \E i \in DOMAIN fetches :
        /\ fetches[i].stage = "served"
        /\ sidebar' = [sidebar EXCEPT !.profile = fetches[i].data,
                                      !.profileLoading = FALSE]
        /\ fetches' = Kept([fetches EXCEPT ![i].stage = "completed"])
        /\ UNCHANGED <<users, profiles, provisioned, clock, response, sent, catalog,
                       auth, form, calls, profileVersion, notice>>

\* The profile page, the sidebar aside: the form, the calls of two sessions
\* and the server.
FormInit == Mounted(FALSE)

FormNext ==
    \/ AuthResolved \/ SignedOut \/ SignedIn
    \/ ChangeFullName \/ handleGenerateRandomAvatar \/ ClearAvatar
    \/ StartSubmit \/ StartOtherUpdate \/ ServeUpdate \/ ThrowUpdate
    \/ SettleSubmit \/ SettleOtherUpdate
    \/ Tick

FormSpec == FormInit /\ [][FormNext]_vars

\* The promise of a call of the form settles.
FormCallSettles == \E c \in FormCalls : ServeUpdateOf(c) \/ ThrowUpdateOf(c)

\* The form alone with the session and the server, where every call of the
\* form settles and the event loop runs what awaits a settled promise.
LiveFormNext ==
    \/ AuthResolved \/ SignedOut \/ SignedIn
    \/ ChangeFullName \/ handleGenerateRandomAvatar
    \/ StartSubmit \/ ServeUpdate \/ ThrowUpdate \/ SettleSubmit

LiveFormSpec ==
    /\ FormInit
    /\ [][LiveFormNext]_vars
    /\ WF_vars(FormCallSettles)
    /\ WF_vars(SettleSubmit)

\* The profile page with the sidebar: the form's submissions, the session
\* and the sidebar's fetches.
SidebarInit == Mounted(TRUE)

SidebarNext ==
    \/ AuthResolved \/ SignedOut \/ SignedIn
    \/ ChangeFullName
    \/ StartSubmit \/ ServeUpdate \/ SettleSubmit
    \/ ServeFetch \/ CompleteFetch

SidebarSpec == SidebarInit /\ [][SidebarNext]_vars

\* ---------------------------------------------------------------- claims
\* The rows of identity u.
RowsOf(u) == {r \in profiles : r.id = u}

\* The statement of this step was an update or a delete.
Writes == {"update", "delete"}

\* C1: a select by an authenticated identity J returns only rows whose id is
\* J, never a row P with P.id # J; an update or a delete by J leaves every
\* such P in the table as it was.
C1_NonOwnerCannotReach ==
    [][\A J \in Ids : response'.uid = J =>
          /\ response'.op = "select" =>
                \A d \in response'.data :
                    \E r \in RowsOf(J) : d = [c \in DOMAIN d |-> r[c]]
          /\ response'.op \in Writes =>
                \A P \in profiles : P.id # J => P \in profiles'
      ]_vars

\* C1 witness: an identity has sent an unfiltered update while the row of
\* another identity was in the table.
C1_Witness ==
    /\ response.op = "update"
    /\ response.uid \in Ids
    /\ response.filter = NoFilter
    /\ response.status = "ok"
    /\ \E P \in profiles : P.id # response.uid

\* C2: an anonymous caller gets no row from any select and writes no row with
\* any update or delete, whatever the filter, columns, order or limit.
C2_AnonymousSeesNothing ==
    [][(response'.uid = NULL /\ response'.op \in Writes \cup {"select"}) =>
          /\ response'.data = {}
          /\ profiles' = profiles
      ]_vars

\* C2 witness: an anonymous unfiltered select has run on a table with rows.
C2_Witness ==
    /\ response.op = "select"
    /\ response.uid = NULL
    /\ response.filter = NoFilter
    /\ profiles # {}


\* The statement of this step created the identity u.
Created(u) == u \notin users /\ u \in users'

\* C3: a step that creates an identity leaves a profile row with that id in
\* the table, although the step is no insert statement; and the creation of
\* an identity that has an email succeeds with no session (auth.uid() NULL),
\* for a row the insert policy denies to a caller without session.
C3_ProvisionedOnCreation ==
    [][/\ \A u \in Ids : Created(u) =>
              /\ response'.op = "signup"
              /\ \E r \in profiles' \ profiles : r.id = u
       /\ (response'.op = "signup" /\ response'.payload.email # NULL) =>
              /\ response'.status = "ok"
              /\ Created(response'.payload.id)
              /\ \A r \in profiles' \ profiles :
                    ~UsersCanInsertTheirOwnProfile(NULL, r)
      ]_vars

\* C3 witness: an identity has just been created and its row is in the table.
C3_Witness ==
    /\ response.op = "signup"
    /\ response.status = "ok"
    /\ response.payload.id \in users
    /\ RowsOf(response.payload.id) # {}

\* Identity u has exactly one row, and the provisioning trigger inserted it.
OneProvisionedRow(u) ==
    u \in users /\ Cardinality(RowsOf(u)) = 1 /\ u \in provisioned

\* C4 as stated: in every reachable state each identity has exactly one
\* profile row, inserted by the provisioning trigger.
C4_ExactlyOneProvisionedRow == \A u \in users : OneProvisionedRow(u)

\* C4 amended: no identity ever has two rows; a created identity has exactly
\* one row, inserted by the trigger, and keeps exactly that through every
\* statement but its own delete.
C4_OneRowUntilOwnDelete ==
    [][\A u \in Ids :
          /\ Cardinality(RowsOf(u))' <= 1
          /\ Created(u) => OneProvisionedRow(u)'
          /\ (OneProvisionedRow(u) /\ ~(response'.op = "delete" /\ response'.uid = u))
                => OneProvisionedRow(u)'
      ]_vars

\* C4 witness: an identity has a row that it inserted itself, after it had
\* deleted the row the trigger inserted.
C4_Witness ==
    \E u \in users : RowsOf(u) # {} /\ u \notin provisioned

\* C5 as stated: no reachable state contains an identity without a row.
C5_NoIdentityWithoutRow == \A u \in users : RowsOf(u) # {}

\* C5 amended: an identity creation whose provisioning insert fails changes
\* neither auth.users nor the table, and one that succeeds adds the identity
\* and exactly its row: no creation leaves an identity without a row.
C5_CreationIsAtomic ==
    [][response'.op = "signup" =>
          IF response'.status = "ok"
          THEN /\ users' = users \cup {response'.payload.id}
               /\ \E r \in profiles' :
                     /\ r.id = response'.payload.id
                     /\ r \notin profiles
                     /\ profiles' = profiles \cup {r}
          ELSE users' = users /\ profiles' = profiles
      ]_vars

\* C5 witness: a creation has failed while another identity had its row.
C5_Witness ==
    /\ response.op = "signup"
    /\ response.status # "ok"
    /\ response.payload.id \notin users
    /\ profiles # {}

\* C6: the row provisioned for a new identity has the identity's id and
\* email, the metadata's full_name or '' when there is none, no avatar_url,
\* and created_at = updated_at.
C6_ProvisionedRow ==
    [][(response'.op = "signup" /\ response'.status = "ok") =>
          LET new == response'.payload
              n   == IF "full_name" \in DOMAIN new.raw_user_meta_data
                     THEN new.raw_user_meta_data.full_name ELSE ""
          IN  \E t \in Times :
                 {r \in profiles' : r.id = new.id} =
                    {[id |-> new.id, email |-> new.email, full_name |-> n,
                      avatar_url |-> NULL, created_at |-> t, updated_at |-> t]}
      ]_vars

\* C6 witness: an identity without full_name in its metadata has been
\* created and its row has the empty string as full_name.
C6_Witness ==
    /\ response.op = "signup"
    /\ response.status = "ok"
    /\ response.payload.raw_user_meta_data = EmptyJson
    /\ \E r \in RowsOf(response.payload.id) : r.full_name = ""


\* The ids of the rows the update of this step was applied to.
Updated == IF response'.op = "update" THEN response'.data ELSE {}

\* C7: every update applied to a row sets its updated_at to the server time
\* of the update, also when the supplied values equal the row's and also
\* when the caller supplies a value for updated_at.
C7_UpdateStampsNow ==
    [][\A r \in profiles' : r.id \in Updated => r.updated_at = clock']_vars

\* C7 witness: an update that supplied an updated_at other than the server
\* time has been applied to a row.
C7_Witness ==
    /\ response.op = "update"
    /\ response.data # {}
    /\ "updated_at" \in DOMAIN response.payload
    /\ response.payload.updated_at # clock

\* C8 as stated: no update lowers a row's updated_at, and a row has
\* updated_at = created_at when provisioned and in every row a step leaves
\* that is not an update applied to it.
C8_UpdatedAtNeverDecreases ==
    [][/\ \A r \in profiles : \A r2 \in profiles' :
              (r2.id = r.id /\ r.id \in Updated) => r2.updated_at >= r.updated_at
       /\ \A u \in Ids : Created(u) =>
              \A r \in profiles' : r.id = u => r.updated_at = r.created_at
       /\ \A r \in profiles : \A r2 \in profiles' :
              (r2.id = r.id /\ r.id \notin Updated /\ r.updated_at = r.created_at)
                  => r2.updated_at = r2.created_at
      ]_vars

\* C9 as stated: updated_at >= created_at in every row of every reachable
\* state.
C9_UpdatedNotBeforeCreated ==
    \A r \in profiles : r.updated_at >= r.created_at

\* C10: a row's updated_at differs after a step only if the step applied an
\* update to the row; a select, a rejected insert, and an update or delete
\* by any caller other than the row's owner leave the whole row as it was.
C10_OnlyAppliedUpdateChanges ==
    [][\A r \in profiles :
          /\ \A r2 \in profiles' :
                (r2.id = r.id /\ r2.updated_at # r.updated_at) => r.id \in Updated
          /\ (\/ response'.op = "select"
              \/ response'.op = "insert" /\ response'.status # "ok"
              \/ response'.op \in Writes /\ response'.uid # r.id)
                => r \in profiles'
      ]_vars

\* C10 witness: an insert has been rejected while the table had a row.
C10_Witness ==
    /\ response.op = "insert"
    /\ response.status # "ok"
    /\ profiles # {}

\* C11: no update changes the id of a row: an update by the owner that
\* supplies another id for the owner's row is rejected by the policy's check
\* on the resulting row and leaves the table as it was, an update step
\* leaves the ids of the table's rows as they were, and every row's id is
\* the id of an identity.
C11_IdNeverChanges ==
    [][/\ \A r \in profiles' : r.id \in users'
       /\ response'.op = "update" =>
             /\ {r.id : r \in profiles'} = {r.id : r \in profiles}
             /\ \A J \in Ids :
                   (/\ response'.uid = J
                    /\ \E r \in RowsOf(J) : Matches(response'.filter, r)
                    /\ "id" \in DOMAIN response'.payload
                    /\ response'.payload.id # J)
                      => response'.status = "42501" /\ profiles' = profiles
      ]_vars

\* C11 witness: an owner's update that supplied another identity's id for the
\* owner's row has been rejected.
C11_Witness ==
    /\ response.op = "update"
    /\ response.uid \in Ids
    /\ RowsOf(response.uid) # {}
    /\ "id" \in DOMAIN response.payload
    /\ response.payload.id # response.uid
    /\ response.payload.id \in users
    /\ response.status = "42501"

\* C12 as stated: whatever update is issued, every row keeps the created_at
\* it had before the update.
C12_CreatedAtKept ==
    [][response'.op = "update" =>
          \A r \in profiles : \A r2 \in profiles' :
              r2.id = r.id => r2.created_at = r.created_at
      ]_vars

\* C16: an insert is accepted only when the caller's identity id equals the
\* id inserted, and then adds exactly that row; every other insert, also
\* every insert by an anonymous caller, returns an error status and leaves
\* the table as it was.
C16_InsertOnlyOwnId ==
    [][response'.op = "insert" =>
          IF response'.status = "ok"
          THEN /\ SqlEq(response'.uid, response'.payload.id)
               /\ \E r \in profiles' :
                     /\ r.id = response'.uid
                     /\ r \notin profiles
                     /\ profiles' = profiles \cup {r}
          ELSE /\ profiles' = profiles
               /\ response'.data = {}
               /\ ~SqlEq(response'.uid, response'.payload.id)
                     => response'.status = "42501"
      ]_vars

\* C16 witness: an anonymous insert of a row the table's constraints would
\* accept (the id of an identity that has no row, with an email) has been
\* rejected.
C16_Witness ==
    /\ response.op = "insert"
    /\ response.uid = NULL
    /\ response.payload.id \in users
    /\ RowsOf(response.payload.id) = {}
    /\ "email" \in DOMAIN response.payload
    /\ response.status = "42501"

\* What is left of chars when only whitespace is taken from its two ends,
\* until neither end is whitespace.
Stripped(chars) ==
    LET n    == Len(chars)
        Ends == {e \in (1..(n + 1)) \X (0..n) :
                    /\ e[1] <= e[2] + 1
                    /\ \A k \in 1..(e[1] - 1) : chars[k] \in Whitespace
                    /\ \A k \in (e[2] + 1)..n : chars[k] \in Whitespace
                    /\ e[1] <= e[2] => /\ chars[e[1]] \notin Whitespace
                                       /\ chars[e[2]] \notin Whitespace}
    IN  {SubSeq(chars, e[1], e[2]) : e \in Ends}

\* The calls of the library that update the caller's profile.
UpdateCalls == {"handleSubmit", "updateProfile"}

\* C13: the edit form sends exactly one update, of exactly full_name and
\* avatar_url, each the typed text without its leading and trailing
\* whitespace; and a successful updateProfile by the owner, from the form or
\* not, leaves the owner's row with its id, email and created_at and every
\* other row as it was.
C13_UpdateChangesNameAndAvatarOnly ==
    [][\A J \in Ids : (response'.uid = J /\ response'.op \in UpdateCalls) =>
          /\ response'.op = "handleSubmit" =>
                /\ Cardinality(sent') = 1
                /\ \A q \in sent' :
                      /\ q.op = "update"
                      /\ DOMAIN q.payload = {"full_name", "avatar_url"}
                      /\ \A c \in DOMAIN q.payload :
                            \E t \in Stripped(response'.payload[c]) :
                                q.payload[c] = Text(t)
          /\ response'.status = "ok" =>
                /\ {r \in profiles' : r.id # J} = {r \in profiles : r.id # J}
                /\ \A r \in RowsOf(J) : \E r2 \in profiles' :
                      /\ r2.id = r.id
                      /\ r2.email = r.email
                      /\ r2.created_at = r.created_at
                /\ Cardinality({r \in profiles' : r.id = J}) = 1
      ]_vars

\* C13 witness: the form has been submitted with whitespace around the name,
\* the owner's row has the name without it, and another identity has a row.
C13_Witness ==
    /\ response.op = "handleSubmit"
    /\ response.status = "ok"
    /\ response.payload.full_name = <<" ", "A", "n", "n", " ">>
    /\ \E r \in RowsOf(response.uid) : r.full_name = "Ann"
    /\ \E r \in profiles : r.id # response.uid

\* C14 as stated, taken for an update that runs at a server time other than
\* the row's updated_at (within one instant no stamp can be greater): after
\* a successful updateProfile({full_name: X}) by the owner, getProfile of the
\* owner's id by the owner returns the row with full_name = X and an
\* updated_at greater than the row had before.
C14_UpdateRoundTrip ==
    [][\A J \in Ids :
          (/\ response'.op = "updateProfile"
           /\ response'.uid = J
           /\ response'.status = "ok"
           /\ "full_name" \in DOMAIN response'.payload
           /\ \A r \in RowsOf(J) : r.updated_at # clock')
             => \A got \in getProfile(J, J)' : \E p \in got.data :
                   /\ p.full_name = response'.payload.full_name
                   /\ \A r \in RowsOf(J) : p.updated_at > r.updated_at
      ]_vars

\* C15: getProfile of an id by a caller whose identity is another one (or
\* none) returns null, whether that id has a row or not; and what such a
\* caller gets is the same before and after any step that changes nothing
\* but the row of that id.
C15_NonOwnerGetsNotFound ==
    [][/\ (response'.op = "getProfile" /\ response'.uid # response'.filter.val)
             => response'.data = {}
       /\ \A U1 \in Ids : \A U2 \in Callers \ {U1} :
             (/\ HasSession(U2)
              /\ {r \in profiles' : r.id # U1} = {r \in profiles : r.id # U1})
                => getProfile(U2, U1)' = getProfile(U2, U1)
      ]_vars

\* C15 witness: an identity has asked for the profile of another identity
\* whose row is in the table, and got null.
C15_Witness ==
    /\ response.op = "getProfile"
    /\ response.uid \in Ids
    /\ response.filter.val # response.uid
    /\ RowsOf(response.filter.val) # {}
    /\ RowsOf(response.uid) # {}
    /\ response.data = {}

\* The calls of the library that take the identity from the session.
SessionCalls == {"updateProfile", "getCurrentUserProfile", "getCurrentUserProfileClient"}

\* C18: without a user updateProfile returns no data and the error 'User not
\* authenticated', getCurrentUserProfile and getCurrentUserProfileClient
\* return null, and none of them sends a statement or changes the table.
C18_NoUserNoQuery ==
    [][(response'.uid = NULL /\ response'.op \in SessionCalls) =>
          /\ sent' = {}
          /\ profiles' = profiles
          /\ response'.data = {}
          /\ response'.op = "updateProfile" =>
                response'.status = "User not authenticated"
      ]_vars

\* C18 witness: updateProfile has been called without a user while the
\* table had a row.
C18_Witness ==
    /\ response.op = "updateProfile"
    /\ response.uid = NULL
    /\ response.status = "User not authenticated"
    /\ profiles # {}

\* C19: updateProfile and the two fetches of the current user's profile send
\* one statement, filtered by id = the session's identity, whatever updates
\* are passed; they return and change no row of another identity.
C19_CallsAddressOwnRow ==
    [][\A J \in Ids : (response'.uid = J /\ response'.op \in SessionCalls) =>
          /\ Cardinality(sent') = 1
          /\ \A q \in sent' : q.filter = ById(J)
          /\ \A r \in response'.data : r.id = J
          /\ {r \in profiles' : r.id # J} = {r \in profiles : r.id # J}
      ]_vars

\* C19 witness: an identity's updateProfile has been applied while another
\* identity had a row.
C19_Witness ==
    /\ response.op = "updateProfile"
    /\ response.uid \in Ids
    /\ response.status = "ok"
    /\ \E q \in sent : q.filter = ById(response.uid)
    /\ \E r \in profiles : r.id # response.uid

\* C20 as stated: the profile page has the same outcome for a caller
\* without identity and for a caller whose profile fetch returns null.
C20_PageTreatsNotFoundAsNoUser ==
    [][(response'.op = "ProfilePage" /\ response'.data = {}) =>
          \A o \in ProfilePage(NULL) : response'.status = o.outcome
      ]_vars

\* The triggers and functions, and the policies, that the setup leaves.
SetupFunctions ==
    {Object("function", "handle_new_user", "public", NULL, "script"),
     Object("function", "update_updated_at_column", "public", NULL, "script"),
     Object("trigger", "on_auth_user_created", "auth.users", "handle_new_user", "script"),
     Object("trigger", "update_profiles_updated_at", "profiles",
            "update_updated_at_column", "script")}

SetupPolicies ==
    {Object("policy", n, "profiles", NULL, "script") :
        n \in {"Users can view own profile", "Users can insert their own profile.",
               "Users can update own profile.", "Users can delete own profile."}}

\* C17: whatever the scripts' objects in the database, a run of a setup
\* script succeeds and leaves exactly its own objects: the two functions and
\* two triggers, or the four policies with row-level security enabled, each
\* once and with the script's definition, and the other script's objects as
\* they were; running it again on the result changes nothing.
C17_SetupIsIdempotent ==
    [][/\ response'.op = "2-add-functions.sql" =>
             /\ response'.status = "ok"
             /\ {o \in catalog'.objects : o.kind \in {"function", "trigger"}}
                   = SetupFunctions
             /\ {o \in catalog'.objects : o.kind = "policy"}
                   = {o \in catalog.objects : o.kind = "policy"}
             /\ catalog'.rls = catalog.rls
             /\ RunScript(catalog', AddFunctions)
                   = [status |-> "ok", catalog |-> catalog']
       /\ response'.op = "3-enable-rls-policies.sql" =>
             /\ response'.status = "ok"
             /\ {o \in catalog'.objects : o.kind = "policy"} = SetupPolicies
             /\ catalog'.rls
             /\ {o \in catalog'.objects : o.kind # "policy"}
                   = {o \in catalog.objects : o.kind # "policy"}
             /\ RunScript(catalog', EnableRlsPolicies)
                   = [status |-> "ok", catalog |-> catalog']
      ]_vars

\* C17 witness: the policy script has been run on a database that had all
\* four policies and both triggers, and the database is as after one setup.
C17_Witness ==
    /\ response.op = "3-enable-rls-policies.sql"
    /\ response.status = "ok"
    /\ response.data = {o.name : o \in SetupPolicies}
    /\ catalog = Installed

WordStarts(chars) ==
    {i \in 1..Len(chars) : chars[i] # " " /\ (i = 1 \/ chars[i - 1] = " ")}

\* C27: the initials of a name that is not all spaces are the upper-cased
\* first characters of its words, in their order, one for each word however
\* many spaces lie around it; the initials of an empty or all-space name are
\* the upper-cased first character of the email.
C27_InitialsOfWords ==
    [][response'.op = "generateInitials" =>
          LET name   == response'.payload.fullName
              email  == response'.payload.fallbackEmail
              starts == WordStarts(name)
              Nth(k) == CHOOSE i \in starts : Cardinality({j \in starts : j < i}) = k - 1
          IN  \A initials \in response'.data :
                 IF starts = {}
                 THEN initials = <<Upper(email[1])>>
                 ELSE /\ Len(initials) = Cardinality(starts)
                      /\ \A k \in 1..Len(initials) : initials[k] = Upper(name[Nth(k)])
      ]_vars

\* C27 witness: the initials of a name of two words with two spaces between
\* them have been computed.
C27_Witness ==
    /\ response.op = "generateInitials"
    /\ response.payload.fullName = <<"a", " ", " ", "B">>
    /\ response.data = {<<"A", "B">>}

\* C23: the form has at most one updateProfile call in flight, and while it
\* has one it is loading, which disables the submit button.
C23_OneCallInFlight ==
    /\ Cardinality(FormCalls) <= 1
    /\ FormCalls # {} => form.loading

\* C23 witness: a second submission of the form is in flight, after a first
\* one completed.
C23_Witness ==
    /\ profileVersion = 1
    /\ Cardinality(FormCalls) = 1
    /\ form.loading

\* C24: a form that is loading is later not loading.
C24_LoadingEnds == form.loading ~> ~form.loading

\* C24 witness: the form is not loading after a submission whose call threw.
C24_Witness ==
    /\ notice.toast = "Something went wrong"
    /\ ~form.loading
    /\ FormCalls = {}

\* C25: a step that settles a call of the form raises profileVersion by one,
\* shows the success toast and calls router.refresh() when the call returned
\* without error, and leaves profileVersion, shows an error toast and does
\* not call router.refresh() when it returned an error or threw; no other
\* step changes profileVersion.
C25_VersionCountsSuccesses ==
    [][IF \E c \in FormCalls : c.stage = "served" /\ c \notin calls'
       THEN \A c \in FormCalls : (c.stage = "served" /\ c \notin calls') =>
               IF ~c.result.thrown /\ c.result.error = NULL
               THEN /\ profileVersion' = profileVersion + 1
                    /\ notice'.toast = "Profile updated successfully!"
                    /\ notice'.routerRefresh
               ELSE /\ profileVersion' = profileVersion
                    /\ notice'.toast \in {"Failed to update profile",
                                          "Something went wrong"}
                    /\ ~notice'.routerRefresh
       ELSE profileVersion' = profileVersion
      ]_vars

\* C25 witness: a submission has just failed with an error after an earlier
\* one succeeded.
C25_Witness ==
    /\ profileVersion = 1
    /\ notice.toast = "Failed to update profile"
    /\ ~notice.routerRefresh

\* The row an update of the supplied columns at time now makes of old.
Applied(old, updates, now) ==
    [id |-> old.id, email |-> old.email, created_at |-> old.created_at,
     full_name |-> IF "full_name" \in DOMAIN updates
                   THEN updates.full_name ELSE old.full_name,
     avatar_url |-> IF "avatar_url" \in DOMAIN updates
                    THEN updates.avatar_url ELSE old.avatar_url,
     updated_at |-> now]

\* C22: the row changes only in steps in which the server applies the whole
\* update of one call in flight to the row as the previous step left it:
\* full_name and avatar_url of that call, updated_at the time of the step.
C22_UpdatesApplyWholeInOrder ==
    [][profiles' # profiles =>
          \E c \in calls, old \in profiles :
              /\ c.stage = "sent"
              /\ [c EXCEPT !.stage = "served"] \in calls'
              /\ profiles' = (profiles \ {old}) \cup {Applied(old, c.updates, clock)}
      ]_vars

\* C22 witness: a call of the form and a call of the other session were in
\* flight together and the server has applied both.
C22_Witness ==
    /\ \E c \in FormCalls : c.stage = "served" /\ c.result = NoResult
    /\ \E c \in calls \ FormCalls : c.stage = "served" /\ c.result = NoResult
    /\ \E r \in RowsOf(UiUser) : r.updated_at = 1

\* C30: when the server applies a submission of the form whose avatar_url is
\* the one the form was loaded with and whose full_name is not, the row's
\* avatar_url after the step is the one before it (NULL and '' taken as the
\* same).
C30_NameOnlyKeepsAvatar ==
    [][\A c \in FormCalls, loaded \in form.profile :
          ( /\ c.stage = "sent"
            /\ [c EXCEPT !.stage = "served"] \in calls'
            /\ c.updates.avatar_url = OrEmpty(loaded.avatar_url)
            /\ c.updates.full_name # OrEmpty(loaded.full_name) )
          => \A old \in profiles, new \in profiles' :
                 OrEmpty(new.avatar_url) = OrEmpty(old.avatar_url)
      ]_vars

\* C28: with a user, after profileVersion has changed and with no fetch in
\* flight, the sidebar shows the profile the fetch started last returned.
C28_SidebarShowsLastFetch ==
    ( /\ sidebar.mounted
      /\ auth.user # NULL
      /\ ~auth.loading
      /\ profileVersion > 0
      /\ fetches # <<>>
      /\ InFlight(fetches) = <<>> )
    => sidebar.profile = fetches[Len(fetches)].data

\* C29: while the sidebar sees no user, it holds no profile.
C29_NoUserNoProfile ==
    (sidebar.mounted /\ ~auth.loading /\ auth.user = NULL) => sidebar.profile = {}

==========================================================================
